---------------------------- MODULE Spec2Model ----------------------------
(***************************************************************************)
(* ANDE Chain genesis plant data generator                                 *)
(* (scripts/generate-genesis-plants.py): seed derivation, packing of the   *)
(* four storage words of a record, storage slot addressing, Merkle root    *)
(* and Merkle proof generation; and the genesis seed generator             *)
(* (scripts/generate-genesis-seeds.py): seed derivation and the update of  *)
(* the storage of the genesis file.                                        *)
(*                                                                         *)
(* Representation of byte values.  A 32-byte value is a tagged tuple:      *)
(*   <<"uint256", n>>        n.to_bytes(32, 'big')                         *)
(*   <<"keccak", a, b>>      keccak(a + b) of two 32-byte values           *)
(*   <<"keccak_text", s>>    keccak(text=s), s a sequence of characters    *)
(* keccak is taken collision-free: each digest is the term of its input,   *)
(* so two digests are equal exactly when their inputs are equal.           *)
(* A Python str is a sequence of one-character strings.                    *)
(***************************************************************************)
EXTENDS Integers, Sequences, FiniteSets, TLC

VARIABLES
    leaves,        \* argument of calculate_merkle_root / generate_merkle_proof
    index,         \* argument of the last generate_merkle_proof call
    merkle_root,   \* value returned by calculate_merkle_root(leaves)
    root_done,     \* calculate_merkle_root has returned
    proof,         \* proof list of generate_merkle_proof(leaves, index)
    proof_done,    \* generate_merkle_proof has returned
    pc,            \* "idle", or the function whose level loop is running
    current_level, \* local of the running level loop
    current_index, \* local of generate_merkle_proof
    passes,        \* passes of the level loop made by the last call
    plants,        \* the list of PlantData records given to the generator
    now,           \* the wall clock, int(time.time())
    runs,          \* the mappings returned by the runs of generate_genesis_storage
    record,        \* the PlantData whose to_storage_slots() is running
    packed_slots,  \* the values returned so far by pack_slot1 .. pack_slot4
    raised,        \* the exception that ended the packing, if any
    stage,         \* position in main() of generate-genesis-seeds.py
    found,         \* the species parse_plantas_md reads from the markdown file
    seed_plants,   \* the list returned by parse_plantas_md
    storage_slots, \* first result of generate_all_seeds
    seeds_metadata,\* second result of generate_all_seeds
    genesis_storage, \* alloc[PLANT_GENOME_ADDRESS].storage of the genesis file
    verified       \* the seed slots counted by verify_genesis

merkle_vars == <<leaves, index, merkle_root, root_done, proof, proof_done,
                 pc, current_level, current_index, passes>>

genesis_vars == <<plants, now, runs>>

pack_vars == <<record, packed_slots, raised>>

seeds_vars == <<stage, found, seed_plants, storage_slots, seeds_metadata,
                genesis_storage, verified>>

vars == <<merkle_vars, genesis_vars, pack_vars, seeds_vars>>

-----------------------------------------------------------------------------
(* Bounds *)

\* longest leaf list drawn with arbitrary (possibly repeated) leaf values
MaxLeaves == 4
\* longest leaf list of pairwise distinct leaves
MaxDistinct == 8
\* indices tried range over -MaxNeg .. len(leaves) + MaxOver
MaxNeg == 2
MaxOver == 1
\* longest list of plant records
MaxPlants == 2
\* largest plant_id drawn
MaxId == 2
\* seconds the wall clock may advance
MaxClock == 2
\* longest tag list of a record that is packed
MaxTags == 2
\* TOTAL_PLANTS of generate-genesis-seeds.py, the number of seeds of the
\* catalogue: 520 in the source, a small catalogue here
TOTAL_PLANTS == 3
\* most species parse_plantas_md finds in the markdown file
MaxFound == 4

-----------------------------------------------------------------------------
(* Byte values and the hash primitive *)

Uint256(n) == <<"uint256", n>>

\* b'\x00' * 32
Zero32 == Uint256(0)

\* keccak(left + right) on two 32-byte values
keccak(left, right) == <<"keccak", left, right>>

\* to_hex(value): the hex string of a byte value
to_hex(value) == <<"0x", value>>

\* the bytes a hex string stands for
from_hex(h) == h[2]

\* keccak(text=data), data a sequence of characters
keccak_text(data) == <<"keccak_text", data>>

\* keccak(seed + bytes([i]))
keccak_seed_byte(seed, i) == <<"keccak_seed_byte", seed, i>>

\* digest[k], byte k (from 0) of a digest
digest_byte(digest, k) == <<"digest_byte", k, digest>>

\* digest[:n], the first n bytes of a digest
first_bytes(digest, n) == [k \in 1..n |-> digest_byte(digest, k - 1)]

\* s[:n] left out: the whole of s
Take_all(s, n) == s

\* s[:n]
Take(s, n) == SubSeq(s, 1, IF Len(s) < n THEN Len(s) ELSE n)

\* b.ljust(n, b'\x00'); an ASCII character stands for its byte
ljust(b, n) == b \o [k \in 1..(IF Len(b) < n THEN n - Len(b) ELSE 0) |-> "NUL"]

\* a raw byte string, held in a 32-byte storage word
Bytes32(b) == <<"bytes32", b>>

\* s.encode('utf-8'): an ASCII character stands for its one byte, the
\* character "e_acute" (U+00E9) gives the two bytes C3 A9
RECURSIVE encode(_)
encode(s) ==
    IF s = <<>> THEN <<>>
    ELSE (IF Head(s) = "e_acute" THEN <<"xC3", "xA9">> ELSE <<Head(s)>>)
         \o encode(Tail(s))

\* bytearray(n)
bytearray(n) == [k \in 1..n |-> 0]

\* packed[start:stop] = data
assign_slice(packed, start, stop, data) ==
    SubSeq(packed, 1, start) \o data \o SubSeq(packed, stop + 1, Len(packed))

\* n.to_bytes(4, 'big') for a known integer 0 <= n < 2^32
to_bytes4(n) ==
    <<(n \div 16777216) % 256, (n \div 65536) % 256, (n \div 256) % 256, n % 256>>

\* value.to_bytes(4, 'big') for a 32-bit value known only as a term:
\* byte 0 is the most significant
big_endian4(value) == [k \in 1..4 |-> <<"be_byte", k - 1, value>>]

HexChars == <<"0", "1", "2", "3", "4", "5", "6", "7",
              "8", "9", "a", "b", "c", "d", "e", "f">>

RECURSIVE hex_digits(_)
hex_digits(n) ==
    IF n < 16 THEN <<HexChars[n + 1]>>
    ELSE hex_digits(n \div 16) \o <<HexChars[(n % 16) + 1]>>

\* Python's hex(n): '0x' and the digits without leading zeros, '-' first
\* for a negative n
hex(n) ==
    IF n < 0 THEN <<"-", "0", "x">> \o hex_digits(0 - n)
    ELSE <<"0", "x">> \o hex_digits(n)

-----------------------------------------------------------------------------
(* Merkle tree *)

\* One pass of the level loop: for i in range(0, len(current_level), 2),
\* hash the pair (i, i+1) when both exist, promote the odd one out.
\* Python index i is TLA+ index i + 1.
\* range(0, len(current_level) - 1, 2): the odd one out is dropped
next_level_drop(level) ==
    [k \in 1..(Len(level) \div 2) |->
        keccak(level[2 * k - 1], level[2 * k])]

\* range(0, len(current_level) - 1): every node hashed with its right
\* neighbour, the last node dropped
next_level_sliding(level) ==
    [k \in 1..(Len(level) - 1) |-> keccak(level[k], level[k + 1])]

\* the odd one out hashed with itself instead of promoted
next_level_duplicate(level) ==
    [k \in 1..((Len(level) + 1) \div 2) |->
        LET i == 2 * (k - 1)
        IN  IF i + 1 < Len(level)
            THEN keccak(level[i + 1], level[i + 2])
            ELSE keccak(level[i + 1], level[i + 1])]

next_level(level) ==
    [k \in 1..((Len(level) + 1) \div 2) |->
        LET i == 2 * (k - 1)
        IN  IF i + 1 < Len(level)
            THEN keccak(level[i + 1], level[i + 2])
            ELSE level[i + 1]]

RECURSIVE root_loop(_)
root_loop(level) ==
    IF Len(level) > 1
    THEN root_loop(next_level(level))
    ELSE level[1]

\* the two early returns: no leaf, one leaf
root_short_hashed(lvs) ==
    IF Len(lvs) = 0 THEN Zero32 ELSE keccak(lvs[1], lvs[1])

root_short(lvs) ==
    IF Len(lvs) = 0 THEN Zero32 ELSE lvs[1]

calculate_merkle_root(lvs) ==
    IF Len(lvs) <= 1 THEN root_short(lvs)
    ELSE root_loop(lvs)

\* What one pass of the level loop appends to the proof: scanning the pairs
\* (i, i+1) with i + 1 < len(current_level), the right node when
\* current_index == i, the left node when current_index == i + 1.
sibling_swapped(level, cur) ==
    LET hits == {i \in 0..(Len(level) - 1) :
                    /\ i % 2 = 0
                    /\ i + 1 < Len(level)
                    /\ (cur = i \/ cur = i + 1)}
    IN  IF hits = {} THEN <<>>
        ELSE LET i == CHOOSE h \in hits : TRUE
             IN  IF cur = i
                 THEN <<to_hex(level[i + 1])>>
                 ELSE <<to_hex(level[i + 2])>>

\* left sibling never recorded (the elif branch lost)
sibling_right_only(level, cur) ==
    LET hits == {i \in 0..(Len(level) - 1) :
                    /\ i % 2 = 0
                    /\ i + 1 < Len(level)
                    /\ cur = i}
    IN  IF hits = {} THEN <<>>
        ELSE <<to_hex(level[cur + 2])>>

\* the right node of the pair recorded for both of its members
sibling_always_right(level, cur) ==
    LET hits == {i \in 0..(Len(level) - 1) :
                    /\ i % 2 = 0
                    /\ i + 1 < Len(level)
                    /\ (cur = i \/ cur = i + 1)}
    IN  IF hits = {} THEN <<>>
        ELSE LET i == CHOOSE h \in hits : TRUE
             IN  <<to_hex(level[i + 2])>>

\* sibling chosen by the parity of current_index, with Python's wrapping
\* of negative list indices
sibling_by_parity(level, cur) ==
    IF cur % 2 = 1
    THEN <<to_hex(level[((cur - 1) % Len(level)) + 1])>>
    ELSE IF cur + 1 < Len(level)
         THEN <<to_hex(level[((cur + 1) % Len(level)) + 1])>>
         ELSE <<>>

sibling(level, cur) ==
    LET hits == {i \in 0..(Len(level) - 1) :
                    /\ i % 2 = 0
                    /\ i + 1 < Len(level)
                    /\ (cur = i \/ cur = i + 1)}
    IN  IF hits = {} THEN <<>>
        ELSE LET i == CHOOSE h \in hits : TRUE
             IN  IF cur = i
                 THEN <<to_hex(level[i + 2])>>
                 ELSE <<to_hex(level[i + 1])>>

RECURSIVE proof_loop(_, _, _)
proof_loop(prf, cur, level) ==
    IF Len(level) > 1
    THEN proof_loop(prf \o sibling(level, cur),
                    cur \div 2,
                    next_level(level))
    ELSE prf

generate_merkle_proof(lvs, idx) ==
    IF idx >= Len(lvs) THEN <<>>
    ELSE proof_loop(<<>>, idx, lvs)

-----------------------------------------------------------------------------
(* PlantData *)

\* ":ANDE:Genesis:2024:Block0"
SeedSuffix ==
    <<":", "A", "N", "D", "E", ":", "G", "e", "n", "e", "s", "i", "s", ":",
      "2", "0", "2", "4", ":", "B", "l", "o", "c", "k", "0">>

\* f"{self.scientific_name}:{self.ncbi_code}:ANDE:Genesis:2024:Block0"
seed_data(self) ==
    self.scientific_name \o <<":">> \o self.ncbi_code \o SeedSuffix

generate_seed(self) == keccak_text(seed_data(self))

\* trait i is int.from_bytes(keccak(seed + bytes([i]))[:1], 'big'), i in range(8)
generate_traits(self) ==
    [k \in 1..8 |-> first_bytes(keccak_seed_byte(generate_seed(self), k - 1), 1)[1]]

\* a tag is a str, the keys are the twenty tags of the table
property_map ==
    (<<"p", "s", "y", "c", "h", "o", "a", "c", "t", "i", "v", "e">> :> 0) @@
    (<<"m", "e", "d", "i", "c", "i", "n", "a", "l">> :> 1) @@
    (<<"t", "o", "x", "i", "c">> :> 2) @@
    (<<"e", "n", "t", "h", "e", "o", "g", "e", "n", "i", "c">> :> 3) @@
    (<<"s", "t", "i", "m", "u", "l", "a", "n", "t">> :> 4) @@
    (<<"s", "e", "d", "a", "t", "i", "v", "e">> :> 5) @@
    (<<"h", "a", "l", "l", "u", "c", "i", "n", "o", "g", "e", "n", "i", "c">> :> 6) @@
    (<<"d", "i", "s", "s", "o", "c", "i", "a", "t", "i", "v", "e">> :> 7) @@
    (<<"e", "m", "p", "a", "t", "h", "o", "g", "e", "n", "i", "c">> :> 8) @@
    (<<"a", "n", "a", "l", "g", "e", "s", "i", "c">> :> 9) @@
    (<<"a", "n", "t", "i", "-", "i", "n", "f", "l", "a", "m", "m", "a", "t", "o", "r", "y">> :> 10) @@
    (<<"a", "n", "t", "i", "b", "a", "c", "t", "e", "r", "i", "a", "l">> :> 11) @@
    (<<"a", "n", "t", "i", "f", "u", "n", "g", "a", "l">> :> 12) @@
    (<<"a", "n", "t", "i", "v", "i", "r", "a", "l">> :> 13) @@
    (<<"a", "n", "t", "i", "o", "x", "i", "d", "a", "n", "t">> :> 14) @@
    (<<"n", "e", "u", "r", "o", "p", "r", "o", "t", "e", "c", "t", "i", "v", "e">> :> 15) @@
    (<<"t", "r", "a", "d", "i", "t", "i", "o", "n", "a", "l">> :> 16) @@
    (<<"v", "i", "s", "i", "o", "n", "a", "r", "y">> :> 17) @@
    (<<"c", "e", "r", "e", "m", "o", "n", "i", "a", "l">> :> 18) @@
    (<<"s", "a", "c", "r", "e", "d">> :> 19)

\* the small letter of each ASCII capital letter
lower_table ==
    ("A" :> "a") @@ ("B" :> "b") @@ ("C" :> "c") @@ ("D" :> "d") @@ ("E" :> "e") @@
    ("F" :> "f") @@ ("G" :> "g") @@ ("H" :> "h") @@ ("I" :> "i") @@ ("J" :> "j") @@
    ("K" :> "k") @@ ("L" :> "l") @@ ("M" :> "m") @@ ("N" :> "n") @@ ("O" :> "o") @@
    ("P" :> "p") @@ ("Q" :> "q") @@ ("R" :> "r") @@ ("S" :> "s") @@ ("T" :> "t") @@
    ("U" :> "u") @@ ("V" :> "v") @@ ("W" :> "w") @@ ("X" :> "x") @@ ("Y" :> "y") @@
    ("Z" :> "z")

\* prop.lower() left out
as_written(prop) == prop

\* prop.lower() on ASCII text: each capital letter becomes its small letter
lower(prop) ==
    [k \in 1..Len(prop) |->
        IF prop[k] \in DOMAIN lower_table THEN lower_table[prop[k]] ELSE prop[k]]

\* the bitfield as the set of bit indices that are set
property_bits(self) ==
    {property_map[lower(self.properties[k])] :
        k \in {j \in 1..Len(self.properties) :
                  lower(self.properties[j]) \in DOMAIN property_map}}

RECURSIVE SumPow2(_)
SumPow2(bits) ==
    IF bits = {} THEN 0
    ELSE LET b == CHOOSE x \in bits : TRUE
         IN  2^b + SumPow2(bits \ {b})

\* bitfield |= (1 << bit_index) for every property found in property_map
encode_properties(self) == SumPow2(property_bits(self))

status_map ==
    [EX |-> 0, EW |-> 1, CR |-> 2, EN |-> 3, VU |-> 4,
     NT |-> 5, LC |-> 6, DD |-> 7, NE |-> 8]

\* status_map.get(self.conservation_status, 8)
encode_conservation(self) ==
    IF self.conservation_status \in DOMAIN status_map
    THEN status_map[self.conservation_status]
    ELSE 8

template_map ==
    [Lophophora |-> 0, Trichocereus |-> 0, Echinopsis |-> 0, Carnegia |-> 0,
     Ariocarpus |-> 0, Epithelantha |-> 0,
     Cannabis |-> 1, Banisteriopsis |-> 1, Erythroxylum |-> 1, Mitragyna |-> 1,
     Psilocybe |-> 2, Amanita |-> 2, Panaeolus |-> 2, Conocybe |-> 2,
     Brugmansia |-> 3, Datura |-> 3, Solandra |-> 3, Brunfelsia |-> 3,
     Ipomoea |-> 4, Argyreia |-> 4, Turbina |-> 4,
     Phalaris |-> 5,
     Salvia |-> 6, Heimia |-> 6,
     Nymphaea |-> 7,
     Mesembryanthemum |-> 8]

\* template_map.get(self.genus, 9)
get_template_id(self) ==
    IF self.genus \in DOMAIN template_map THEN template_map[self.genus] ELSE 9

\* ','.join(names)
RECURSIVE join(_)
join(names) ==
    IF Len(names) = 0 THEN <<>>
    ELSE IF Len(names) = 1 THEN names[1]
    ELSE names[1] \o <<",">> \o join(Tail(names))

\* zlib.crc32(data) & 0xFFFFFFFF, a 32-bit value
crc32(data) == <<"crc32", data>>

\* the exception of packed[24] = v for v outside range(0, 256)
ValueError == <<"ValueError", "byte must be in range(0, 256)">>

\* the digest of the scientific name alone
pack_slot1_name(self) == keccak_text(self.scientific_name)

pack_slot1(self) == generate_seed(self)

\* self.scientific_name.encode('utf-8')[:32].ljust(32, b'\x00')
pack_slot2(self) == Bytes32(ljust(Take(encode(self.scientific_name), 32), 32))

\* packed after the writes of bytes 0-27, in the order of the code: NCBI
\* code (0-7), common names hash (8-11), traits (12-19), properties
\* bitfield (20-23), rarity tier (24), conservation status (25), reserved
\* (26-27).  Python index i is TLA+ index i + 1.
slot3_fields(self) ==
    LET traits == generate_traits(self)
        p1 == assign_slice(bytearray(32), 0, 8,
                           ljust(Take(encode(self.ncbi_code), 8), 8))
        p2 == assign_slice(p1, 8, 12,
                           first_bytes(keccak_text(join(self.common_names)), 4))
        p3 == [k \in 1..Len(p2) |-> IF k \in 13..20 THEN traits[k - 12] ELSE p2[k]]
        p4 == assign_slice(p3, 20, 24, to_bytes4(encode_properties(self)))
        p5 == [p4 EXCEPT ![25] = self.rarity_tier]
        p6 == [p5 EXCEPT ![26] = encode_conservation(self)]
    IN  assign_slice(p6, 26, 28, <<0, 0>>)

\* packed[24] = v raises ValueError for v outside range(0, 256)
pack_slot3_raises(self) == self.rarity_tier \notin 0..255

\* the checksum taken over packed[:24], the bytes before the rarity tier
pack_slot3_crc24(self) ==
    IF pack_slot3_raises(self) THEN ValueError
    ELSE LET packed == slot3_fields(self)
         IN  Bytes32(assign_slice(packed, 28, 32,
                                  big_endian4(crc32(SubSeq(packed, 1, 24)))))

\* packed[24] = self.rarity_tier raises ValueError outside range(0, 256);
\* bytes 28-31 are the CRC32 of packed[:28]
pack_slot3(self) ==
    IF pack_slot3_raises(self) THEN ValueError
    ELSE LET packed == slot3_fields(self)
         IN  Bytes32(assign_slice(packed, 28, 32,
                                  big_endian4(crc32(SubSeq(packed, 1, 28)))))

\* json.dumps(metadata, sort_keys=True)
metadata_json(self) ==
    <<"json",
      <<"commonNames", self.common_names>>,
      <<"family", self.family>>,
      <<"genus", self.genus>>,
      <<"properties", self.properties>>,
      <<"scientificName", self.scientific_name>>>>

\* keccak(text=metadata_json)
metadata_hash(self) == <<"keccak_json", metadata_json(self)>>

\* bytes([template_id]) + metadata_hash[:31]: the digest shifted by one byte
pack_slot4_shifted(self) ==
    Bytes32(<<get_template_id(self)>> \o first_bytes(metadata_hash(self), 31))

\* packed = bytearray(metadata_hash); packed[0] = self._get_template_id()
pack_slot4(self) ==
    LET packed == first_bytes(metadata_hash(self), 32)
    IN  Bytes32([packed EXCEPT ![1] = get_template_id(self)])

\* 0x10 + (id - 1) * 3: records three slots apart
base_slot_stride3(self) == 16 + (self.plant_id - 1) * 3

\* base_slot = 0x10 + (self.plant_id - 1) * 4
base_slot(self) == 16 + (self.plant_id - 1) * 4

\* a dict as a function on its keys; d1.update(d2)
update(d1, d2) ==
    [k \in (DOMAIN d1) \cup (DOMAIN d2) |->
        IF k \in DOMAIN d2 THEN d2[k] ELSE d1[k]]

to_storage_slots(self) ==
    LET pairs == <<<<hex(base_slot(self) + 0), to_hex(pack_slot1(self))>>,
                   <<hex(base_slot(self) + 1), to_hex(pack_slot2(self))>>,
                   <<hex(base_slot(self) + 2), to_hex(pack_slot3(self))>>,
                   <<hex(base_slot(self) + 3), to_hex(pack_slot4(self))>>>>
    IN  [k \in {pairs[j][1] : j \in 1..4} |->
            pairs[CHOOSE j \in 1..4 :
                    pairs[j][1] = k /\ \A m \in (j + 1)..4 : pairs[m][1] # k][2]]

-----------------------------------------------------------------------------
(* Replay of a proof (spec 4.4, verify) *)

\* <<ok, running>> after replaying prf from running at position idx of a
\* level of size nodes: an odd position hashes sibling ++ running, an even
\* position with a right neighbour hashes running ++ sibling, the unpaired
\* tail consumes nothing; ok is FALSE when an element is missing or left over.
RECURSIVE replay(_, _, _, _)
replay(running, idx, prf, size) ==
    IF size <= 1 THEN <<prf = <<>>, running>>
    ELSE IF idx % 2 = 1
         THEN IF prf = <<>> THEN <<FALSE, running>>
              ELSE replay(keccak(from_hex(Head(prf)), running),
                          idx \div 2, Tail(prf), (size + 1) \div 2)
         ELSE IF idx + 1 < size
              THEN IF prf = <<>> THEN <<FALSE, running>>
                   ELSE replay(keccak(running, from_hex(Head(prf))),
                               idx \div 2, Tail(prf), (size + 1) \div 2)
              ELSE replay(running, idx \div 2, prf, (size + 1) \div 2)

verify(leaf, idx, prf, root, total) ==
    /\ idx \in 0..(total - 1)
    /\ LET r == replay(leaf, idx, prf, total)
       IN  r[1] /\ r[2] = root

-----------------------------------------------------------------------------
(* Inputs *)

RECURSIVE SeqsUpTo(_, _)
SeqsUpTo(S, n) ==
    IF n = 0 THEN {<<>>}
    ELSE LET shorter == SeqsUpTo(S, n - 1)
         IN  shorter \cup {Append(s, v) : s \in {t \in shorter : Len(t) = n - 1}, v \in S}

\* leaf values: plain 32-byte values, the zero value, and a value that is
\* itself the digest of two others
LeafValues == {Uint256(0), Uint256(1), Uint256(2), keccak(Uint256(1), Uint256(2))}

DistinctLeaves(n) == [k \in 1..n |-> Uint256(k)]

LeafLists == SeqsUpTo(LeafValues, MaxLeaves) \cup {DistinctLeaves(n) : n \in 0..MaxDistinct}

Indices(lvs) == (0 - MaxNeg)..(Len(lvs) + MaxOver)

-----------------------------------------------------------------------------
(* The Merkle functions applied to a drawn leaf list, one level-loop pass  *)
(* per step.  The program is single-threaded and computes the root before  *)
(* it exports the proofs (main: export_genesis_json, export_merkle_proofs).*)

\* the generator has not been given anything
GenesisIdle ==
    /\ plants = <<>>
    /\ now = 0
    /\ runs = <<>>

\* no record is being packed
PackIdle ==
    /\ record = <<>>
    /\ packed_slots = <<>>
    /\ raised = <<>>

\* generate-genesis-seeds.py is not running
SeedsIdle ==
    /\ stage = "idle"
    /\ found = <<>>
    /\ seed_plants = <<>>
    /\ storage_slots = <<>>
    /\ seeds_metadata = <<>>
    /\ genesis_storage = <<>>
    /\ verified = 0

MerkleInit ==
    /\ leaves \in LeafLists
    /\ index = 0
    /\ merkle_root = Zero32
    /\ root_done = FALSE
    /\ proof = <<>>
    /\ proof_done = FALSE
    /\ pc = "idle"
    /\ current_level = <<>>
    /\ current_index = 0
    /\ passes = 0
    /\ GenesisIdle
    /\ PackIdle
    /\ SeedsIdle

\* calculate_merkle_root(leaves): the early returns, or entry into the loop
RootCall ==
    /\ pc = "idle"
    /\ ~root_done
    /\ passes' = 0
    /\ IF Len(leaves) <= 1
       THEN /\ merkle_root' = root_short(leaves)
            /\ root_done' = TRUE
            /\ UNCHANGED <<pc, current_level>>
       ELSE /\ current_level' = leaves
            /\ pc' = "root"
            /\ UNCHANGED <<merkle_root, root_done>>
    /\ UNCHANGED <<leaves, index, proof, proof_done, current_index>>
    /\ UNCHANGED <<genesis_vars, pack_vars, seeds_vars>>

\* while len(current_level) > 1: one pass
RootPass ==
    /\ pc = "root"
    /\ Len(current_level) > 1
    /\ current_level' = next_level(current_level)
    /\ passes' = passes + 1
    /\ UNCHANGED <<leaves, index, merkle_root, root_done, proof, proof_done,
                   pc, current_index>>
    /\ UNCHANGED <<genesis_vars, pack_vars, seeds_vars>>

\* return current_level[0]
RootReturn ==
    /\ pc = "root"
    /\ Len(current_level) <= 1
    /\ merkle_root' = current_level[1]
    /\ root_done' = TRUE
    /\ pc' = "idle"
    /\ UNCHANGED <<leaves, index, proof, proof_done, current_level,
                   current_index, passes>>
    /\ UNCHANGED <<genesis_vars, pack_vars, seeds_vars>>

\* generate_merkle_proof(leaves, i): the early return, or entry into the loop
ProofCall ==
    /\ pc = "idle"
    /\ root_done
    /\ \E i \in Indices(leaves) :
        /\ index' = i
        /\ proof' = <<>>
        /\ passes' = 0
        /\ IF i >= Len(leaves)
           THEN /\ proof_done' = TRUE
                /\ UNCHANGED <<pc, current_level, current_index>>
           ELSE /\ proof_done' = FALSE
                /\ current_index' = i
                /\ current_level' = leaves
                /\ pc' = "proof"
    /\ UNCHANGED <<leaves, merkle_root, root_done>>
    /\ UNCHANGED <<genesis_vars, pack_vars, seeds_vars>>

\* while len(current_level) > 1: one pass
ProofPass ==
    /\ pc = "proof"
    /\ Len(current_level) > 1
    /\ proof' = proof \o sibling(current_level, current_index)
    /\ current_index' = current_index \div 2
    /\ current_level' = next_level(current_level)
    /\ passes' = passes + 1
    /\ UNCHANGED <<leaves, index, merkle_root, root_done, proof_done, pc>>
    /\ UNCHANGED <<genesis_vars, pack_vars, seeds_vars>>

\* return proof
ProofReturn ==
    /\ pc = "proof"
    /\ Len(current_level) <= 1
    /\ proof_done' = TRUE
    /\ pc' = "idle"
    /\ UNCHANGED <<leaves, index, merkle_root, root_done, proof,
                   current_level, current_index, passes>>
    /\ UNCHANGED <<genesis_vars, pack_vars, seeds_vars>>

MerkleNext ==
    \/ RootCall \/ RootPass \/ RootReturn
    \/ ProofCall \/ ProofPass \/ ProofReturn

SpecMerkle == MerkleInit /\ [][MerkleNext]_vars

\* the program is one thread: a level loop that can make its next step, or
\* return, does so
SpecMerkleFair ==
    /\ SpecMerkle
    /\ WF_vars(RootPass) /\ WF_vars(RootReturn)
    /\ WF_vars(ProofPass) /\ WF_vars(ProofReturn)

-----------------------------------------------------------------------------
(* Genesis generation *)

\* b"Sonk'o wachary"
EasterEgg == <<"S", "o", "n", "k", "'", "o", " ", "w", "a", "c", "h", "a", "r", "y">>

\* b"NCBI.nlm.nih.gov"
Authority ==
    <<"N", "C", "B", "I", ".", "n", "l", "m", ".", "n", "i", "h", ".", "g", "o", "v">>

\* (version << 8) | flags with version = 1, flags = 0
version_data == 256

\* the header slots, storage["0x0"] .. storage["0x5"]; time_now is
\* int(time.time()) at the moment of the call
header_slots(pls, time_now) ==
    (<<"0", "x", "0">> :> to_hex(Bytes32(ljust(EasterEgg, 32)))) @@
    (<<"0", "x", "1">> :> to_hex(Bytes32(ljust(Authority, 32)))) @@
    (<<"0", "x", "2">> :> to_hex(Uint256(Len(pls)))) @@
    (<<"0", "x", "3">> :> to_hex(calculate_merkle_root(
                                    [k \in 1..Len(pls) |-> generate_seed(pls[k])]))) @@
    (<<"0", "x", "4">> :> to_hex(Uint256(time_now))) @@
    (<<"0", "x", "5">> :> to_hex(Uint256(version_data)))

\* for plant in plants: storage.update(plant.to_storage_slots())
RECURSIVE plant_loop(_, _)
plant_loop(storage, pls) ==
    IF pls = <<>> THEN storage
    ELSE plant_loop(update(storage, to_storage_slots(Head(pls))), Tail(pls))

generate_genesis_storage(pls, time_now) ==
    plant_loop(header_slots(pls, time_now), pls)

\* main: "Storage slots used"
slots_used(pls) == 6 + Len(pls) * 4

-----------------------------------------------------------------------------
(* Inputs of the generator *)

Names == {<<"a">>, <<"a", ":", "b">>}

Codes == {<<"c">>, <<"b", ":", "c">>}

\* ids from 1 up, and one id below 1
PlantIds == {-2} \cup (1..MaxId)

PlantRecord(id, name, code) ==
    [plant_id |-> id,
     scientific_name |-> name,
     common_names |-> <<<<"P", "e", "y", "o", "t", "e">>, <<"H", "i", "k", "u", "r", "i">>>>,
     genus |-> "Lophophora",
     family |-> "Cactaceae",
     ncbi_code |-> code,
     properties |-> <<<<"p", "s", "y", "c", "h", "o", "a", "c", "t", "i", "v", "e">>,
                      <<"M", "e", "d", "i", "c", "i", "n", "a", "l">>,
                      <<"c", "e", "r", "e", "m", "o", "n", "i", "a", "l">>,
                      <<"u", "n", "k", "n", "o", "w", "n">>>>,
     conservation_status |-> "VU",
     rarity_tier |-> 3]

Catalogue ==
    {PlantRecord(id, nc[1], nc[2]) :
        id \in PlantIds,
        nc \in {<<n, c>> \in Names \X Codes : ~(Len(n) > 1 /\ Len(c) > 1)}}

PlantLists == SeqsUpTo(Catalogue, MaxPlants)

MerkleIdle ==
    /\ leaves = <<>>
    /\ index = 0
    /\ merkle_root = Zero32
    /\ root_done = FALSE
    /\ proof = <<>>
    /\ proof_done = FALSE
    /\ pc = "idle"
    /\ current_level = <<>>
    /\ current_index = 0
    /\ passes = 0

GenesisInit ==
    /\ plants \in PlantLists
    /\ now = 0
    /\ runs = <<>>
    /\ MerkleIdle
    /\ PackIdle
    /\ SeedsIdle

\* the wall clock advances by a second
Tick ==
    /\ now < MaxClock
    /\ now' = now + 1
    /\ UNCHANGED <<plants, runs, merkle_vars, pack_vars, seeds_vars>>

\* one run of generate_genesis_storage(plants); two runs are compared.  An
\* exception of pack_slot3 ends the run without a mapping.
GenerateGenesisStorage ==
    /\ Len(runs) < 2
    /\ \A k \in 1..Len(plants) : ~pack_slot3_raises(plants[k])
    /\ runs' = Append(runs, generate_genesis_storage(plants, now))
    /\ UNCHANGED <<plants, now, merkle_vars, pack_vars, seeds_vars>>

GenesisNext == Tick \/ GenerateGenesisStorage

SpecGenesis == GenesisInit /\ [][GenesisNext]_vars

-----------------------------------------------------------------------------
(* Packing of one record: to_storage_slots() calls pack_slot1 .. pack_slot4 *)

\* scientific names of 0, 1 and 33 bytes, and one of 32 characters whose
\* last character takes two bytes
PackNames ==
    {<<>>, <<"a">>, [k \in 1..33 |-> "a"],
     [k \in 1..31 |-> "a"] \o <<"e_acute">>}

\* NCBI codes of 2 and of 9 bytes
PackCodes == {<<"N", "C">>, [k \in 1..9 |-> "9"]}

PackCommonNames ==
    {<<>>, <<<<"P", "e", "y", "o", "t", "e">>, <<"H", "i", "k", "u", "r", "i">>>>}

\* tier values inside and outside a byte
PackTiers == {-1, 0, 3, 255, 256}

\* three genera of the template table and one outside it
PackGenera == {"Lophophora", "Salvia", "Mesembryanthemum", "Anadenanthera"}

\* two IUCN codes and one unknown code
PackStatus == {"VU", "EX", "??"}

\* tag spellings: table tags of bits 0, 1, 9 and 19 in several cases, and a
\* tag outside the table
PackTags ==
    {<<"p", "s", "y", "c", "h", "o", "a", "c", "t", "i", "v", "e">>,
     <<"M", "e", "d", "i", "c", "i", "n", "a", "l">>,
     <<"M", "E", "D", "I", "C", "I", "N", "A", "L">>,
     <<"A", "n", "a", "l", "g", "e", "s", "i", "c">>,
     <<"S", "A", "C", "R", "E", "D">>,
     <<"u", "n", "k", "n", "o", "w", "n">>}

PackRecord(name, code, common, gen, props, status, tier) ==
    [plant_id |-> 1,
     scientific_name |-> name,
     common_names |-> common,
     genus |-> gen,
     family |-> "Cactaceae",
     ncbi_code |-> code,
     properties |-> props,
     conservation_status |-> status,
     rarity_tier |-> tier]

\* records varying in their strings and tier, and records varying in their
\* tag list, status code and genus
PackRecords ==
    {PackRecord(n, c, cn, "Lophophora", <<>>, "VU", t) :
        n \in PackNames, c \in PackCodes, cn \in PackCommonNames, t \in PackTiers}
    \cup
    {PackRecord(<<"a">>, <<"N", "C">>, <<>>, g, ps, s, 3) :
        g \in PackGenera, ps \in SeqsUpTo(PackTags, MaxTags), s \in PackStatus}

PackInit ==
    /\ record \in PackRecords
    /\ packed_slots = <<>>
    /\ raised = <<>>
    /\ MerkleIdle
    /\ GenesisIdle
    /\ SeedsIdle

PackSlot1 ==
    /\ raised = <<>>
    /\ Len(packed_slots) = 0
    /\ packed_slots' = Append(packed_slots, pack_slot1(record))
    /\ UNCHANGED <<record, raised, merkle_vars, genesis_vars, seeds_vars>>

PackSlot2 ==
    /\ raised = <<>>
    /\ Len(packed_slots) = 1
    /\ packed_slots' = Append(packed_slots, pack_slot2(record))
    /\ UNCHANGED <<record, raised, merkle_vars, genesis_vars, seeds_vars>>

\* pack_slot3 returns its 32 bytes or raises
PackSlot3 ==
    /\ raised = <<>>
    /\ Len(packed_slots) = 2
    /\ LET result == pack_slot3(record)
       IN  IF result[1] = "ValueError"
           THEN /\ raised' = <<result>>
                /\ UNCHANGED packed_slots
           ELSE /\ packed_slots' = Append(packed_slots, result)
                /\ UNCHANGED raised
    /\ UNCHANGED <<record, merkle_vars, genesis_vars, seeds_vars>>

PackSlot4 ==
    /\ raised = <<>>
    /\ Len(packed_slots) = 3
    /\ packed_slots' = Append(packed_slots, pack_slot4(record))
    /\ UNCHANGED <<record, raised, merkle_vars, genesis_vars, seeds_vars>>

PackNext == PackSlot1 \/ PackSlot2 \/ PackSlot3 \/ PackSlot4

SpecPack == PackInit /\ [][PackNext]_vars

-----------------------------------------------------------------------------
(* generate-genesis-seeds.py *)

SEED_START_SLOT == 256

\* value of one hexadecimal digit, either case
hex_value(c) ==
    CASE c \in {"a", "A"} -> 10
      [] c \in {"b", "B"} -> 11
      [] c \in {"c", "C"} -> 12
      [] c \in {"d", "D"} -> 13
      [] c \in {"e", "E"} -> 14
      [] c \in {"f", "F"} -> 15
      [] OTHER -> CHOOSE d \in 0..9 : HexChars[d + 1] = c

RECURSIVE hex_number(_)
hex_number(digits) ==
    IF digits = <<>> THEN 0
    ELSE 16 * hex_number(SubSeq(digits, 1, Len(digits) - 1))
         + hex_value(digits[Len(digits)])

\* int(s, 16) on a hex string with or without the 0x prefix, of any width
int_base16(s) ==
    IF Len(s) >= 2 /\ s[1] = "0" /\ s[2] \in {"x", "X"}
    THEN hex_number(SubSeq(s, 3, Len(s)))
    ELSE hex_number(s)

\* f"0x{n:064x}": the digits padded with zeros to 64 characters
format_064x(n) ==
    LET digits == hex_digits(n)
    IN  <<"0", "x">>
        \o [k \in 1..(IF Len(digits) < 64 THEN 64 - Len(digits) ELSE 0) |-> "0"]
        \o digits

RECURSIVE decimal_digits(_)
decimal_digits(n) ==
    IF n < 10 THEN <<HexChars[n + 1]>>
    ELSE decimal_digits(n \div 10) \o <<HexChars[(n % 10) + 1]>>

\* f"{n}" for an integer n
str_int(n) == IF n < 0 THEN <<"-">> \o decimal_digits(0 - n) ELSE decimal_digits(n)

\* ":ANDE:Genesis:2025:Block0:"
SeedTag2025 ==
    <<":", "A", "N", "D", "E", ":", "G", "e", "n", "e", "s", "i", "s", ":",
      "2", "0", "2", "5", ":", "B", "l", "o", "c", "k", "0", ":">>

\* f"{plant['scientific_name']}:{plant['genus']}:ANDE:Genesis:2025:Block0:{plant_id}"
seed_input(plant, plant_id) ==
    plant.scientific_name \o <<":">> \o plant.genus \o SeedTag2025 \o str_int(plant_id)

\* generate_seed(plant, plant_id) of generate-genesis-seeds.py:
\* '0x' + keccak(text=seed_input).hex()
seeds_generate_seed(plant, plant_id) == to_hex(keccak_text(seed_input(plant, plant_id)))

\* the plants appended by parse_plantas_md when fewer than TOTAL_PLANTS
\* species were found, then plants[:TOTAL_PLANTS]
parse_plantas_md(species) ==
    LET filler(i) ==
            [scientific_name |->
                 <<"P", "l", "a", "n", "t", "a", " ", "m", "e", "d", "i", "c", "i",
                   "n", "a", "e", " ", "s", "p", ".", " ">> \o str_int(i + 1),
             common_names |->
                 <<<<"M", "e", "d", "i", "c", "i", "n", "a", "l", " ",
                     "P", "l", "a", "n", "t", " ">> \o str_int(i + 1)>>,
             genus |-> <<"P", "l", "a", "n", "t", "a">>,
             family |-> <<"M", "e", "d", "i", "c", "i", "n", "a", "e">>]
        filled == species \o [k \in 1..(IF Len(species) < TOTAL_PLANTS
                                        THEN TOTAL_PLANTS - Len(species) ELSE 0) |->
                                 filler(Len(species) + k - 1)]
    IN  Take(filled, TOTAL_PLANTS)

\* generate_all_seeds(plants): <<storage_slots, seeds_metadata>>
generate_all_seeds(pls) ==
    LET slot(i) == hex(SEED_START_SLOT + (i - 1))
    IN  <<[s \in {slot(i) : i \in 1..Len(pls)} |->
              seeds_generate_seed(pls[CHOOSE i \in 1..Len(pls) : slot(i) = s],
                                  CHOOSE i \in 1..Len(pls) : slot(i) = s)],
          [i \in 1..Len(pls) |->
              [id |-> i,
               slot |-> slot(i),
               seed |-> seeds_generate_seed(pls[i], i),
               scientific_name |-> pls[i].scientific_name,
               common_names |-> pls[i].common_names,
               genus |-> pls[i].genus,
               family |-> pls[i].family]]>>

\* the seeds written into an empty storage instead of the current one
update_genesis_json_fresh(current_storage, slots) ==
    [k \in {format_064x(int_base16(s)) : s \in DOMAIN slots} |->
        slots[CHOOSE s \in DOMAIN slots : format_064x(int_base16(s)) = k]]

\* update_genesis_json(storage_slots) on the storage of the genesis file:
\* current_storage[f"0x{int(slot, 16):064x}"] = seed for every slot
update_genesis_json(current_storage, slots) ==
    LET padded(s) == format_064x(int_base16(s))
        written == {padded(s) : s \in DOMAIN slots}
    IN  [k \in (DOMAIN current_storage) \cup written |->
            IF k \in written
            THEN slots[CHOOSE s \in DOMAIN slots : padded(s) = k]
            ELSE current_storage[k]]

\* verify_genesis: len(seeds), the keys k with int(k, 16) >= SEED_START_SLOT
verify_genesis(storage) ==
    Cardinality({k \in DOMAIN storage : int_base16(k) >= SEED_START_SLOT})

-----------------------------------------------------------------------------
(* Inputs of the seed generator *)

\* species of the markdown file; a name or a genus may hold a colon
Species(name, gen) ==
    [scientific_name |-> name,
     common_names |-> <<<<"P", "e", "y", "o", "t", "e">>>>,
     genus |-> gen,
     family |-> <<"C", "a", "c", "t", "a", "c", "e", "a", "e">>]

FoundSpecies == {Species(<<"a", ":", "b">>, <<"c">>), Species(<<"a">>, <<"c">>)}

\* a seed written before this run
OldSeed(n) == to_hex(keccak_text(<<"o", "l", "d">> \o str_int(n)))

\* entries the genesis file may hold before the run: cultural references
\* and Celestia metadata below 0x100 under short and padded keys, seeds of
\* an earlier run under short and padded keys, and a seed beyond the
\* catalogue
PriorEntries ==
    {<<<<"0", "x", "0">>, to_hex(Bytes32(ljust(EasterEgg, 32)))>>,
     <<format_064x(16), to_hex(Uint256(7))>>,
     <<<<"0", "x", "F", "F">>, to_hex(Uint256(255))>>,
     <<hex(SEED_START_SLOT), OldSeed(0)>>,
     <<format_064x(SEED_START_SLOT), OldSeed(1)>>,
     <<format_064x(SEED_START_SLOT + TOTAL_PLANTS), OldSeed(2)>>}

PriorStorages ==
    {[k \in {e[1] : e \in chosen} |-> (CHOOSE e \in chosen : e[1] = k)[2]] :
        chosen \in SUBSET PriorEntries}

SeedsInit ==
    /\ stage = "start"
    /\ found \in SeqsUpTo(FoundSpecies, MaxFound)
    /\ seed_plants = <<>>
    /\ storage_slots = <<>>
    /\ seeds_metadata = <<>>
    /\ genesis_storage \in PriorStorages
    /\ verified = 0
    /\ MerkleIdle
    /\ GenesisIdle
    /\ PackIdle

\* main, step 1: plants = parse_plantas_md()
ParsePlantasMd ==
    /\ stage = "start"
    /\ seed_plants' = parse_plantas_md(found)
    /\ stage' = "parsed"
    /\ UNCHANGED <<found, storage_slots, seeds_metadata, genesis_storage, verified,
                   merkle_vars, genesis_vars, pack_vars>>

\* main, step 2: storage_slots, seeds_metadata = generate_all_seeds(plants)
GenerateAllSeeds ==
    /\ stage = "parsed"
    /\ storage_slots' = generate_all_seeds(seed_plants)[1]
    /\ seeds_metadata' = generate_all_seeds(seed_plants)[2]
    /\ stage' = "generated"
    /\ UNCHANGED <<found, seed_plants, genesis_storage, verified,
                   merkle_vars, genesis_vars, pack_vars>>

\* main, step 3: update_genesis_json(storage_slots)
UpdateGenesisJson ==
    /\ stage = "generated"
    /\ genesis_storage' = update_genesis_json(genesis_storage, storage_slots)
    /\ stage' = "updated"
    /\ UNCHANGED <<found, seed_plants, storage_slots, seeds_metadata, verified,
                   merkle_vars, genesis_vars, pack_vars>>

\* main, step 5: verify_genesis()
VerifyGenesis ==
    /\ stage = "updated"
    /\ verified' = verify_genesis(genesis_storage)
    /\ stage' = "verified"
    /\ UNCHANGED <<found, seed_plants, storage_slots, seeds_metadata, genesis_storage,
                   merkle_vars, genesis_vars, pack_vars>>

SeedsNext == ParsePlantasMd \/ GenerateAllSeeds \/ UpdateGenesisJson \/ VerifyGenesis

SpecSeeds == SeedsInit /\ [][SeedsNext]_vars

-----------------------------------------------------------------------------
(* Properties of the Merkle functions *)

ValidIndex == index \in 0..(Len(leaves) - 1)

ProofReturned == pc = "idle" /\ proof_done

\* smallest k with 2^k >= n
RECURSIVE CeilLog2(_)
CeilLog2(n) == IF n <= 1 THEN 0 ELSE 1 + CeilLog2((n + 1) \div 2)

IsPowerOfTwo(n) == \E k \in 0..n : 2^k = n

PairwiseDistinct(lvs) ==
    \A p, q \in 1..Len(lvs) : p # q => lvs[p] # lvs[q]

\* C1: for every valid index, replaying the returned proof from leaves[index]
\* consumes exactly all proof elements and ends on calculate_merkle_root(leaves).
C1_ProofCorrectness ==
    (ProofReturned /\ root_done /\ ValidIndex) =>
        LET r == replay(leaves[index + 1], index, proof, Len(leaves))
        IN  r[1] /\ r[2] = merkle_root

C1_Witness ==
    /\ ProofReturned /\ root_done
    /\ Len(leaves) = 7 /\ index = 6 /\ Len(proof) = 2

\* node k of the next level is H(level[2k] ++ level[2k+1]) when both exist,
\* and level[2k] itself when 2k is the unpaired last node
LevelStep(cur, nxt) ==
    /\ Len(nxt) = (Len(cur) + 1) \div 2
    /\ \A k \in 0..(Len(nxt) - 1) :
        IF 2 * k + 1 < Len(cur)
        THEN nxt[k + 1] = <<"keccak", cur[2 * k + 1], cur[2 * k + 2]>>
        ELSE nxt[k + 1] = cur[2 * k + 1]

\* C2: with 2 or more leaves every pass of calculate_merkle_root hashes the
\* pairs and promotes the unpaired last node unchanged, and the root is the
\* single node left; 3 leaves give H(H(A++B)++C); with 5 leaves the fifth
\* leaf is promoted twice and then hashed once.
C2_LevelReduction ==
    /\ [][(pc = "root" /\ pc' = "root") => LevelStep(current_level, current_level')]_vars
    /\ [][(pc = "root" /\ pc' = "idle") =>
            (Len(current_level) = 1 /\ merkle_root' = current_level[1])]_vars
    /\ [](root_done /\ Len(leaves) = 3 =>
            merkle_root = <<"keccak", <<"keccak", leaves[1], leaves[2]>>, leaves[3]>>)
    /\ [](pc = "root" /\ Len(leaves) = 5 /\ passes = 1 =>
            (Len(current_level) = 3 /\ current_level[3] = leaves[5]))
    /\ [](pc = "root" /\ Len(leaves) = 5 /\ passes = 2 =>
            (Len(current_level) = 2 /\ current_level[2] = leaves[5]))
    /\ [](root_done /\ Len(leaves) = 5 =>
            merkle_root = <<"keccak",
                             <<"keccak", <<"keccak", leaves[1], leaves[2]>>,
                                         <<"keccak", leaves[3], leaves[4]>>>>,
                             leaves[5]>>)

C2_Witness ==
    /\ root_done /\ Len(leaves) = 5 /\ passes = 3
    /\ merkle_root[3] = leaves[5]

\* C3: the root of the empty list is the 32-byte zero value and the root of
\* a one-element list is that leaf, with no hash applied.
C3_DegenerateTrees ==
    /\ (root_done /\ Len(leaves) = 0) => merkle_root = <<"uint256", 0>>
    /\ (root_done /\ Len(leaves) = 1) => merkle_root = leaves[1]
    /\ (root_done /\ Len(leaves) <= 1) => passes = 0

C3_Witness ==
    /\ root_done /\ Len(leaves) = 1 /\ merkle_root = leaves[1]
    /\ leaves[1] # <<"uint256", 0>>

\* C4: for an index outside 0..len(leaves)-1, negative ones included, and for
\* every leaf list, the empty one included, generate_merkle_proof returns
\* the empty list; the call always comes to its return.
C4_OutOfRangeEmpty ==
    /\ (ProofReturned /\ ~ValidIndex) => proof = <<>>
    /\ (pc = "proof" /\ ~ValidIndex) => (proof = <<>> /\ current_index < 0)
    /\ pc = "proof" => (ENABLED ProofPass \/ ENABLED ProofReturn)

C4_Witness ==
    /\ ProofReturned /\ index < 0 /\ Len(leaves) >= 2 /\ passes >= 1
    /\ proof = <<>>

\* C5: at most one sibling is appended per level, bottom level first, so a
\* proof has at most ceil(log2 n) elements; for n = 2^k leaves every valid
\* index gets exactly k elements (8 leaves, index 4: 3 elements).
C5_ProofLength ==
    /\ pc = "proof" => (Len(proof) <= passes /\ passes <= CeilLog2(Len(leaves)))
    /\ (ProofReturned /\ ValidIndex) =>
        /\ Len(proof) <= CeilLog2(Len(leaves))
        /\ IsPowerOfTwo(Len(leaves)) => Len(proof) = CeilLog2(Len(leaves))
        /\ (Len(leaves) = 8 /\ index = 4) => Len(proof) = 3
        /\ (index % 2 = 1) => proof[1] = to_hex(leaves[index])
        /\ (index % 2 = 0 /\ index + 1 < Len(leaves)) =>
                proof[1] = to_hex(leaves[index + 2])

C5_Witness ==
    /\ ProofReturned /\ Len(leaves) = 8 /\ index = 4 /\ Len(proof) = 3

\* every node of every level of the tree over lvs
RECURSIVE TreeNodes(_)
TreeNodes(level) ==
    {level[k] : k \in 1..Len(level)}
        \cup (IF Len(level) > 1 THEN TreeNodes(next_level(level)) ELSE {})

\* values a proof element may be replaced by
TamperValues == LeafValues \cup TreeNodes(leaves) \cup {<<"uint256", 255>>}

\* C6: with pairwise distinct leaves and a valid index i, verification of
\* leaves[i] at i against the root fails when one proof element is replaced
\* by a different value, and fails with the proof generated for another
\* index j # i.
C6_TamperRejection ==
    (ProofReturned /\ root_done /\ ValidIndex /\ PairwiseDistinct(leaves)) =>
        /\ \A p \in 1..Len(proof) : \A v \in TamperValues :
              v # from_hex(proof[p]) =>
                 ~verify(leaves[index + 1], index,
                         [proof EXCEPT ![p] = to_hex(v)],
                         merkle_root, Len(leaves))
        /\ \A j \in 0..(Len(leaves) - 1) :
              j # index =>
                 ~verify(leaves[index + 1], index,
                         generate_merkle_proof(leaves, j),
                         merkle_root, Len(leaves))

C6_Witness ==
    /\ ProofReturned /\ root_done /\ ValidIndex /\ PairwiseDistinct(leaves)
    /\ Len(leaves) = 3 /\ index = 2 /\ Len(proof) = 1
    /\ verify(leaves[index + 1], index, proof, merkle_root, Len(leaves))

Swap(lvs, p, q) == [lvs EXCEPT ![p] = lvs[q], ![q] = lvs[p]]

\* C7: swapping two positions that hold different leaves changes the root;
\* the root returned is the function's value on the list, so equal lists
\* give equal roots.
C7_OrderSensitivity ==
    root_done =>
        /\ merkle_root = calculate_merkle_root(leaves)
        /\ \A p, q \in 1..Len(leaves) :
              leaves[p] # leaves[q] =>
                 calculate_merkle_root(Swap(leaves, p, q)) # merkle_root

C7_Witness ==
    /\ root_done /\ Len(leaves) = 6
    /\ calculate_merkle_root(Swap(leaves, 5, 6)) # merkle_root

-----------------------------------------------------------------------------
(* Properties of the genesis generation *)

\* C8: two runs of generate_genesis_storage on the same list of records
\* return the same slot-index to value mapping, whatever the moment of each.
C8_Reproducible ==
    Len(runs) = 2 => runs[1] = runs[2]

\* the two records differ in exactly one of scientific_name, ncbi_code and
\* plant_id, and agree on every other field
OneIdentityFieldDiffers(r1, r2) ==
    /\ Cardinality({f \in {"scientific_name", "ncbi_code", "plant_id"} :
                        r1[f] # r2[f]}) = 1
    /\ \A f \in (DOMAIN r1) \ {"scientific_name", "ncbi_code", "plant_id"} :
            r1[f] = r2[f]

\* C9: two records (ids from 1 up) that differ in exactly one identity field
\* (primary name, reference code or id) get different seeds, hence different
\* Merkle leaves.
C9_SeedSensitivity ==
    Len(runs) >= 1 =>
        \A p, q \in 1..Len(plants) :
            (/\ plants[p].plant_id >= 1
             /\ plants[q].plant_id >= 1
             /\ OneIdentityFieldDiffers(plants[p], plants[q])) =>
                generate_seed(plants[p]) # generate_seed(plants[q])

\* int(key, 16) of a key '0x...'
DigitValue(c) == CHOOSE d \in 0..15 : HexChars[d + 1] = c

RECURSIVE DigitsValue(_)
DigitsValue(ds) ==
    IF ds = <<>> THEN 0
    ELSE 16 * DigitsValue(SubSeq(ds, 1, Len(ds) - 1)) + DigitValue(ds[Len(ds)])

SlotNumber(key) == DigitsValue(SubSeq(key, 3, Len(key)))

WellFormedKey(key) ==
    /\ Len(key) >= 3 /\ key[1] = "0" /\ key[2] = "x"
    /\ \A k \in 3..Len(key) : \E d \in 0..15 : HexChars[d + 1] = key[k]
    /\ (Len(key) > 3 => key[3] # "0")

DistinctIdsFromOne(pls) ==
    /\ \A p \in 1..Len(pls) : pls[p].plant_id >= 1
    /\ \A p, q \in 1..Len(pls) : p # q => pls[p].plant_id # pls[q].plant_id

SlotValue(r, k) ==
    CASE k = 0 -> pack_slot1(r)
      [] k = 1 -> pack_slot2(r)
      [] k = 2 -> pack_slot3(r)
      [] k = 3 -> pack_slot4(r)

SlotRange(r) == {16 + (r.plant_id - 1) * 4 + k : k \in 0..3}

\* C10: for records with pairwise distinct ids >= 1, slot k of record id is
\* stored at index 0x10 + (id-1)*4 + k, the four-slot ranges of different
\* records overlap neither each other nor the header slots 0x0..0x5, and the
\* mapping returned has exactly 6 + 4*n entries.
C10_SlotAddressing ==
    \A r \in 1..Len(runs) :
        DistinctIdsFromOne(plants) =>
            LET storage == runs[r]
            IN  /\ \A key \in DOMAIN storage : WellFormedKey(key)
                /\ \A p \in 1..Len(plants) : \A k \in 0..3 :
                      \E key \in DOMAIN storage :
                          /\ SlotNumber(key) = 16 + (plants[p].plant_id - 1) * 4 + k
                          /\ storage[key] = to_hex(SlotValue(plants[p], k))
                /\ \A p, q \in 1..Len(plants) :
                      p # q => SlotRange(plants[p]) \cap SlotRange(plants[q]) = {}
                /\ \A p \in 1..Len(plants) : SlotRange(plants[p]) \cap (0..5) = {}
                /\ {SlotNumber(key) : key \in DOMAIN storage}
                      = (0..5) \cup UNION {SlotRange(plants[p]) : p \in 1..Len(plants)}
                /\ Cardinality(DOMAIN storage) = 6 + 4 * Len(plants)
                /\ Cardinality(DOMAIN storage) = slots_used(plants)

C10_Witness ==
    /\ Len(runs) >= 1 /\ Len(plants) = 2 /\ DistinctIdsFromOne(plants)
    /\ Cardinality(DOMAIN runs[1]) = 14
    /\ <<"0", "x", "1", "7">> \in DOMAIN runs[1]

-----------------------------------------------------------------------------
(* Properties of the packing functions *)

\* value is a string of exactly 32 bytes: a keccak digest, or raw bytes
ThirtyTwoBytes(value) ==
    \/ value[1] = "keccak_text"
    \/ value[1] = "bytes32" /\ Len(value[2]) = 32

AllReturned32 ==
    \A k \in 1..Len(packed_slots) : ThirtyTwoBytes(packed_slots[k])

\* C11 as stated: for every record, whatever its strings, tag list, status
\* code and integer tier value, no packing function ends in an error and
\* each returns exactly 32 bytes.
C11_NeverFailPacking == raised = <<>> /\ AllReturned32

\* C11, amended: for every record whose tier value is in 0..255, whatever
\* its strings, tag list and status code, no packing function ends in an
\* error and each returns exactly 32 bytes.
C11_PackingOfByteTier ==
    record.rarity_tier \in 0..255 => raised = <<>> /\ AllReturned32

\* all four slots of a record with a name longer than 32 bytes are packed
C11_Witness ==
    /\ Len(packed_slots) = 4
    /\ record.rarity_tier \in 0..255
    /\ Len(encode(record.scientific_name)) > 32
    /\ Len(encode(record.ncbi_code)) > 8

\* byte 0 of pack_slot4 is the template id of the record's genus
TemplateByte ==
    LET b == packed_slots[4][2]
    IN  /\ b[1] \in 0..9
        /\ record.genus \in DOMAIN template_map => b[1] = template_map[record.genus]
        /\ record.genus \notin DOMAIN template_map => b[1] = 9

\* C12 as stated: byte 0 of pack_slot4 is the template id (0..9, 9 when the
\* genus is not in the table) and bytes 1..31 are bytes 0..30, the
\* most-significant 31 bytes, of the metadata digest.
C12_MetadataPrefix ==
    Len(packed_slots) = 4 =>
        /\ TemplateByte
        /\ \A k \in 1..31 :
              packed_slots[4][2][k + 1] = digest_byte(metadata_hash(record), k - 1)

\* C12, amended: byte 0 of pack_slot4 is the template id (0..9, 9 when the
\* genus is not in the table) and byte k of pack_slot4, k in 1..31, is byte
\* k of the metadata digest: the least-significant 31 bytes, byte 0 of the
\* digest being the one that is lost.
C12_MetadataSlotLayout ==
    Len(packed_slots) = 4 =>
        /\ TemplateByte
        /\ \A k \in 1..31 :
              packed_slots[4][2][k + 1] = digest_byte(metadata_hash(record), k)

\* pack_slot4 has returned for a genus outside the table
C12_Witness ==
    /\ Len(packed_slots) = 4
    /\ record.genus \notin DOMAIN template_map
    /\ packed_slots[4][2][1] = 9

\* C13: bytes 28..31 of pack_slot3 are the big-endian 32-bit CRC of bytes
\* 0..27 of the same output, so the checksum depends on no byte outside
\* this slot.
C13_ChecksumRoundTrip ==
    Len(packed_slots) >= 3 =>
        LET b == packed_slots[3][2]
        IN  /\ Len(b) = 32
            /\ SubSeq(b, 29, 32) = big_endian4(crc32(SubSeq(b, 1, 28)))

\* pack_slot3 has returned with a non-zero tier byte and status byte
C13_Witness ==
    /\ Len(packed_slots) >= 3
    /\ packed_slots[3][2][25] = 255
    /\ packed_slots[3][2][26] = 4

UpperCase == <<"A", "B", "C", "D", "E", "F", "G", "H", "I", "J", "K", "L", "M",
               "N", "O", "P", "Q", "R", "S", "T", "U", "V", "W", "X", "Y", "Z">>

LowerCase == <<"a", "b", "c", "d", "e", "f", "g", "h", "i", "j", "k", "l", "m",
               "n", "o", "p", "q", "r", "s", "t", "u", "v", "w", "x", "y", "z">>

\* s and t are the same text when the case of letters is ignored
EqualIgnoringCase(s, t) ==
    /\ Len(s) = Len(t)
    /\ \A k \in 1..Len(s) :
          \/ s[k] = t[k]
          \/ \E i \in 1..26 : {s[k], t[k]} = {UpperCase[i], LowerCase[i]}

\* the tag of bit i in the table
TableTag(i) == CHOOSE t \in DOMAIN property_map : property_map[t] = i

\* bit i of the natural number n
Bit(n, i) == (n \div 2^i) % 2

Reverse(s) == [k \in 1..Len(s) |-> s[Len(s) + 1 - k]]

\* C14: bit i (0..19) of the property bitfield is set exactly when some tag
\* of the record equals, ignoring case, the i-th tag of the table; tags
\* outside the table change nothing, the value is below 2^20 and is the
\* same for the tags in reverse order and for the tags repeated; it is
\* stored big-endian in bytes 20..23 of pack_slot3.
C14_PropertyBitfield ==
    Len(packed_slots) >= 3 =>
        LET b == packed_slots[3][2]
            n == encode_properties(record)
            tags == record.properties
        IN  /\ \A i \in 0..19 :
                  Bit(n, i) = 1 <=>
                      \E k \in 1..Len(tags) : EqualIgnoringCase(tags[k], TableTag(i))
            /\ n >= 0 /\ n < 2^20
            /\ encode_properties([record EXCEPT !.properties = Reverse(tags)]) = n
            /\ encode_properties([record EXCEPT !.properties = tags \o tags]) = n
            /\ b[21] * 16777216 + b[22] * 65536 + b[23] * 256 + b[24] = n
            /\ \A k \in 21..24 : b[k] \in 0..255

\* pack_slot3 has returned for a tag list holding a table tag written in
\* capitals and a tag outside the table
C14_Witness ==
    /\ Len(packed_slots) >= 3
    /\ \E k \in 1..Len(record.properties) :
          /\ record.properties[k] \notin DOMAIN property_map
          /\ lower(record.properties[k]) \in DOMAIN property_map
    /\ \E k \in 1..Len(record.properties) :
          lower(record.properties[k]) \notin DOMAIN property_map
    /\ packed_slots[3][2][22] = 8

-----------------------------------------------------------------------------
(* Properties of generate-genesis-seeds.py *)

\* slot numbers of the seeds of this run
SeedSlots == SEED_START_SLOT..(SEED_START_SLOT + Cardinality(DOMAIN storage_slots) - 1)

\* C15: update_genesis_json leaves every entry of the prior storage whose
\* slot number is below 0x100 in place with the same key and value, and the
\* keys it adds or changes all have a slot number in 0x100 .. 0x100 + n - 1,
\* n the number of seeds.
C15_UpdateFrame ==
    [][stage = "generated" /\ stage' = "updated" =>
          /\ \A k \in DOMAIN genesis_storage :
                int_base16(k) < SEED_START_SLOT =>
                    /\ k \in DOMAIN genesis_storage'
                    /\ genesis_storage'[k] = genesis_storage[k]
          /\ \A k \in DOMAIN genesis_storage' :
                (k \notin DOMAIN genesis_storage
                    \/ genesis_storage'[k] # genesis_storage[k])
                => int_base16(k) \in SeedSlots]_vars

\* the update has run on a storage holding entries below 0x100 under a short
\* and under a padded key, and an earlier seed it overwrote
C15_Witness ==
    /\ stage = "updated"
    /\ <<"0", "x", "F", "F">> \in DOMAIN genesis_storage
    /\ format_064x(16) \in DOMAIN genesis_storage
    /\ genesis_storage[format_064x(SEED_START_SLOT)] = seeds_metadata[1].seed
    /\ Cardinality(DOMAIN genesis_storage) = 2 + TOTAL_PLANTS

\* C16: from any prior storage, after generate_all_seeds on the TOTAL_PLANTS
\* plants and update_genesis_json, each slot number of the seed range is
\* held by exactly one key, which maps to the new seed of its plant, no key
\* has a slot number above the range, and verify_genesis counts exactly
\* TOTAL_PLANTS seed slots.
C16_EarlierSeedsReplaced ==
    stage \in {"updated", "verified"} =>
        /\ \A i \in 1..TOTAL_PLANTS :
              LET holders == {k \in DOMAIN genesis_storage :
                                 int_base16(k) = SEED_START_SLOT + (i - 1)}
              IN  /\ Cardinality(holders) = 1
                  /\ \A k \in holders : genesis_storage[k] = seeds_metadata[i].seed
        /\ \A k \in DOMAIN genesis_storage :
              int_base16(k) <= SEED_START_SLOT + TOTAL_PLANTS - 1
        /\ stage = "verified" => verified = TOTAL_PLANTS

\* every species a plant list may hold, the found ones and one more
AllSpecies == FoundSpecies \cup {Species(<<"a">>, <<"b", ":", "c">>)}

\* C20: two plants whose triples (scientific_name, genus, plant_id) differ
\* give different strings to the hash in generate_seed.
C20_UnambiguousSeedInput ==
    \A i \in 1..Len(seeds_metadata) :
        \A other \in AllSpecies, id \in 1..TOTAL_PLANTS :
            <<other.scientific_name, other.genus, id>>
                # <<seed_plants[i].scientific_name, seed_plants[i].genus, i>>
            => seeds_metadata[i].seed # seeds_generate_seed(other, id)

-----------------------------------------------------------------------------
(* Termination of the level loops *)

\* a pass of a level loop
PassStep == passes' = passes + 1

\* each pass replaces a level of m >= 2 nodes by one of ceil(m/2) < m nodes
PassShrinks ==
    [][PassStep =>
          /\ Len(current_level) >= 2
          /\ Len(current_level') = (Len(current_level) + 1) \div 2
          /\ Len(current_level') < Len(current_level)]_vars

\* calculate_merkle_root returns after ceil(log2 n) passes, 0 for n <= 1
RootPasses ==
    [][(~root_done /\ root_done') => passes' = CeilLog2(Len(leaves))]_vars

\* a running level loop ends with the return of its function
LoopsEnd ==
    /\ (pc = "root") ~> (pc = "idle" /\ root_done)
    /\ (pc = "proof") ~> (pc = "idle" /\ proof_done)

\* C17 as stated: for every leaf list and every index the level loops of
\* calculate_merkle_root and of generate_merkle_proof end, each pass taking
\* m >= 2 nodes to ceil(m/2) < m, and both functions return after exactly
\* ceil(log2 n) passes for n >= 2 and 0 passes for n <= 1.
C17_ExactPasses ==
    /\ PassShrinks
    /\ RootPasses
    /\ [][(root_done /\ proof_done' /\ pc' = "idle") =>
             passes' = CeilLog2(Len(leaves))]_vars
    /\ LoopsEnd

\* C17, amended: the level loops end, each pass taking m >= 2 nodes to
\* ceil(m/2) < m; calculate_merkle_root returns after exactly ceil(log2 n)
\* passes (0 for n <= 1), and so does generate_merkle_proof for every index
\* below n, negative ones included; for an index >= n it returns before
\* the loop, after 0 passes, whatever n is.
C17_Termination ==
    /\ PassShrinks
    /\ RootPasses
    /\ [][(root_done /\ proof_done' /\ pc' = "idle") =>
             passes' = (IF index' >= Len(leaves) THEN 0
                        ELSE CeilLog2(Len(leaves)))]_vars
    /\ LoopsEnd

\* the proof loop has ended for the last of 5 leaves, after 3 passes over
\* levels of 5, 3 and 2 nodes
C17_Witness ==
    /\ pc = "idle" /\ root_done /\ proof_done
    /\ Len(leaves) = 5 /\ index = 4
    /\ passes = 3 /\ Len(current_level) = 1

-----------------------------------------------------------------------------
(* The root as a commitment to the leaf list *)

\* calculate_merkle_root(leaves) has just returned
RootReturned == pc = "idle" /\ root_done /\ ~proof_done

\* C18 as stated: with a collision-free hash, two different ordered leaf
\* lists, of equal or different lengths, leaves that are digests of two
\* other values included, never give the same root.
C18_RootBindsList ==
    RootReturned =>
        \A other \in LeafLists :
            other # leaves => calculate_merkle_root(other) # merkle_root

\* C18, amended: with a collision-free hash, two different ordered leaf
\* lists of the same length never give the same root; lists of different
\* lengths can, as [A, B, C] and [H(A++B), C] do.
C18_RootBindsListOfLength ==
    RootReturned =>
        \A other \in LeafLists :
            (other # leaves /\ Len(other) = Len(leaves))
            => calculate_merkle_root(other) # merkle_root

\* the root of [A, B, C] has been computed, and [H(A++B), C] has the same
\* root while every other list of three leaves has another one
C18_Witness ==
    /\ RootReturned
    /\ leaves = <<Uint256(1), Uint256(2), Uint256(0)>>
    /\ calculate_merkle_root(<<keccak(Uint256(1), Uint256(2)), Uint256(0)>>) = merkle_root
    /\ calculate_merkle_root(<<Uint256(1), Uint256(2), Uint256(1)>>) # merkle_root

-----------------------------------------------------------------------------
(* The header of the genesis mapping *)

\* C19: in every mapping returned for records with distinct ids >= 1, the
\* value at slot 0x3 is calculate_merkle_root of the values stored at the
\* records' slot 0 (index 0x10 + (id - 1) * 4), in the order of the input
\* list, and the value at slot 0x2 is the number of records as a 32-byte
\* big-endian integer.
C19_CommittedRoot ==
    DistinctIdsFromOne(plants) =>
        \A r \in 1..Len(runs) :
            LET stored == [p \in 1..Len(plants) |->
                              from_hex(runs[r][hex(16 + (plants[p].plant_id - 1) * 4)])]
            IN  /\ runs[r][<<"0", "x", "3">>] = to_hex(calculate_merkle_root(stored))
                /\ runs[r][<<"0", "x", "2">>] = to_hex(Uint256(Len(plants)))

\* a mapping has been returned for two records given in the order id 2, id 1
C19_Witness ==
    /\ Len(runs) >= 1
    /\ Len(plants) = 2
    /\ plants[1].plant_id = 2 /\ plants[2].plant_id = 1
    /\ plants[1].scientific_name # plants[2].scientific_name
    /\ runs[1][<<"0", "x", "3">>] =
           to_hex(keccak(from_hex(runs[1][<<"0", "x", "1", "4">>]),
                         from_hex(runs[1][<<"0", "x", "1", "0">>])))

=============================================================================
